---- MODULE Spec2Model ----
(***************************************************************************)
(* spider-query-builder: the parameter value objects (spdrParam.ts) and    *)
(* the SpdrQueryBuilder (src/spdrQueryBuilder.ts).                         *)
(*                                                                         *)
(* Strings are TLA+ strings: \o is concatenation, Len the length and       *)
(* SubSeq the substring, so String.prototype.slice(n) is                   *)
(* SubSeq(s, n + 1, Len(s)).  An optional argument is a sequence of        *)
(* length 0 (absent) or 1 (present).  A parameter object is a record       *)
(* [id, property, query]: id is the object's identity (the order of        *)
(* construction), property and query the two fields the builder reads.     *)
(***************************************************************************)
EXTENDS Integers, Sequences, FiniteSets, TLC

VARIABLES _query, _operand, _history, _params, _sortParams, _paginationParams,
          nextId, calls, lastOp,
          spdrParam,        \* the parameter object a caller constructed last
          compiled_query    \* _query of the compiled SpdrQueryBuilder (part_000)

vars == <<_query, _operand, _history, _params, _sortParams, _paginationParams,
          nextId, calls, lastOp, spdrParam, compiled_query>>

(***************************************************************************)
(* Bounds of the exploration.                                              *)
(***************************************************************************)
MaxCalls == 4

\* longest list of values given to SpdrSearch
MaxValues == 3

(***************************************************************************)
(* Enumerations of spdrParam.ts and spdrQueryBuilder.ts.                   *)
(***************************************************************************)
_DEFAULT_OPERAND == "&"

Operator == [exists |-> "exists", equals |-> "=", sort |-> "order"]

OrderOperator == [asc |-> "asc", desc |-> "desc"]

RangeOperator == [lt |-> "lt", lte |-> "lte", gt |-> "gt", gte |-> "gte",
                  between |-> "between"]

DateOperator == [after |-> "after", before |-> "before",
                 strictlyAfter |-> "strictly_after",
                 strictlyBefore |-> "strictly_before"]

PageOperator == [pagination |-> "pagination", page |-> "page",
                 itemsPerPage |-> "itemsPerPage"]

SpdrParamType == [param |-> 0, sort |-> 1, pagination |-> 2]

(***************************************************************************)
(* JavaScript primitives used by the constructors.                         *)
(***************************************************************************)
\* Boolean.prototype.toString
BoolToString(b) == IF b THEN "true" ELSE "false"

\* Number.prototype.toString on the integers used here
NumToString(n) == ToString(n)

\* !!secondValue for an optional number: absent (undefined) and 0 are falsy
Truthy(optNum) == Len(optNum) = 1 /\ optNum[1] # 0

\* String.prototype.slice(n) for 0 <= n
Slice(s, n) == SubSeq(s, n + 1, Len(s))

\* String.prototype.slice(0, n)
SliceTo(s, n) == SubSeq(s, 1, IF n < Len(s) THEN n ELSE Len(s))

\* zero padding to a width, as Date.prototype.toISOString pads its fields
RECURSIVE Pad(_, _)
Pad(s, width) == IF Len(s) >= width THEN s ELSE Pad("0" \o s, width)

\* A Date is [valid, y, mo, d, h, mi, s, ms] in UTC; an invalid Date has
\* valid = FALSE and toISOString throws a RangeError on it.
toISOString(date) ==
    Pad(NumToString(date.y), 4) \o "-" \o Pad(NumToString(date.mo), 2) \o "-"
    \o Pad(NumToString(date.d), 2) \o "T" \o Pad(NumToString(date.h), 2) \o ":"
    \o Pad(NumToString(date.mi), 2) \o ":" \o Pad(NumToString(date.s), 2) \o "."
    \o Pad(NumToString(date.ms), 3) \o "Z"

(***************************************************************************)
(* Parameter variants: the token each constructor stores in query.         *)
(***************************************************************************)
SpdrParam(id, property, query) ==
    [id |-> id, property |-> property, query |-> query]

SpdrExistsQuery(property, value) ==
    Operator.exists \o "[" \o property \o "]=" \o BoolToString(value)

\* a forEach that appends operand after every value, the last included
RECURSIVE SearchForEach_trailingOperand(_, _, _, _)
SearchForEach_trailingOperand(property, values, operand, i) ==
    IF i > Len(values) THEN ""
    ELSE property \o "[]" \o Operator.equals \o values[i] \o operand
         \o SearchForEach_trailingOperand(property, values, operand, i + 1)

\* values.forEach: every value but the last is followed by operand
RECURSIVE SearchForEach(_, _, _, _)
SearchForEach(property, values, operand, i) ==
    IF i > Len(values) THEN ""
    ELSE (IF i = Len(values)
          THEN property \o "[]" \o Operator.equals \o values[i]
          ELSE property \o "[]" \o Operator.equals \o values[i] \o operand)
         \o SearchForEach(property, values, operand, i + 1)

SpdrSearchQuery(property, values, operand) ==
    IF Len(values) = 1
    THEN property \o Operator.equals \o values[1]
    ELSE SearchForEach(property, values, operand, 1)

SpdrDateQuery(property, operator, value) ==
    property \o "[" \o operator \o "]=" \o SliceTo(toISOString(value), 10)

\* the test on secondValue asks whether it was given, not whether it is truthy
SpdrRangeQuery_presentNotTruthy(property, operator, value, secondValue) ==
    IF Len(secondValue) = 1 /\ operator = RangeOperator.between
    THEN property \o "[" \o operator \o "]=" \o NumToString(value) \o ".."
         \o NumToString(secondValue[1])
    ELSE property \o "[" \o operator \o "]=" \o NumToString(value)

SpdrRangeQuery(property, operator, value, secondValue) ==
    IF Truthy(secondValue) /\ operator = RangeOperator.between
    THEN property \o "[" \o operator \o "]=" \o NumToString(value) \o ".."
         \o NumToString(secondValue[1])
    ELSE property \o "[" \o operator \o "]=" \o NumToString(value)

SpdrOrderQuery(property, value) ==
    Operator.sort \o "[" \o property \o "]=" \o value

SpdrPaginationQuery(value, property) ==
    property \o Operator.equals \o BoolToString(value)

SpdrPageIdxQuery(value, property) ==
    property \o Operator.equals \o NumToString(value)

SpdrPageSizeQuery(value, property) ==
    property \o Operator.equals \o NumToString(value)

(***************************************************************************)
(* Inputs of the calls.                                                    *)
(***************************************************************************)
\* constructor(operand?)
ConstructorArgs == {<<>>}

\* operand(value)
OperandArgs == {";", "&&"}

\* search(property, values, operand?)
SearchArgs == {<<"a", <<"x", "y">>, <<>>>>, <<"b", <<"x">>, <<",">>>>}

\* exists(property, value?)
ExistsArgs == {<<"b", <<>>>>}

\* range(property, operator, value, secondValue?)
RangeArgs == {<<"a", RangeOperator.between, 10, <<20>>>>}

ValidDate == [valid |-> TRUE, y |-> 2021, mo |-> 5, d |-> 3, h |-> 10,
              mi |-> 0, s |-> 0, ms |-> 0]

InvalidDate == [valid |-> FALSE, y |-> 0, mo |-> 0, d |-> 0, h |-> 0,
                mi |-> 0, s |-> 0, ms |-> 0]

\* date(property, operator, value)
DateArgs == {<<"a", DateOperator.after, ValidDate>>,
             <<"b", DateOperator.strictlyBefore, InvalidDate>>}

\* order(property, direction)
OrderArgs == {<<"a", OrderOperator.asc>>}

\* enablePagination(value?, property?)
EnablePaginationArgs == {<<<<>>, <<>>>>}

\* pageIndex(value, property?)
PageIndexArgs == {<<2, <<>>>>, <<1, <<"a">>>>}

\* pageSize(value, property?)
PageSizeArgs == {<<30, <<>>>>}

\* clear(type?) and remove(property, type?)
TypeArgs == {<<>>, <<SpdrParamType.param>>, <<SpdrParamType.sort>>,
             <<SpdrParamType.pagination>>}

RemoveProperties == {"a"}

\* set query(value) of a parameter
SetQueryArgs == {"x=1"}

\* arrays a caller builds with the constructors and assigns to a sequence
ParamsArrays(id) ==
    {<<SpdrParam(id, "b", SpdrExistsQuery("b", FALSE)),
       SpdrParam(id + 1, "a", SpdrSearchQuery("a", <<"z">>, "&"))>>}

SortParamsArrays(id) ==
    {<<SpdrParam(id, "b", SpdrOrderQuery("b", OrderOperator.asc))>>}

PaginationParamsArrays(id) ==
    {<<SpdrParam(id, PageOperator.itemsPerPage,
                 SpdrPageSizeQuery(10, PageOperator.itemsPerPage))>>}

(***************************************************************************)
(* SpdrQueryBuilder.                                                       *)
(***************************************************************************)
\* a default argument value: the argument when present, else the default
Default(opt, dflt) == IF Len(opt) = 1 THEN opt[1] ELSE dflt

\* the string `${operand}${query}` that _append adds to this._query
_append(param, operand) == operand \o param.query

\* [...].forEach(param => this._append(param)) on the accumulator acc
RECURSIVE ForEachAppend(_, _, _)
ForEachAppend(acc, list, operand) ==
    IF list = <<>> THEN acc
    ELSE ForEachAppend(acc \o _append(Head(list), operand), Tail(list), operand)

\* _buildQuery that walks the sort parameters before the filters
_buildQuery_sortFirst ==
    _query' = ForEachAppend("", _sortParams' \o _params' \o _paginationParams',
                            _operand)

\* _buildQuery without the reset of the accumulator
_buildQuery_noReset ==
    _query' = ForEachAppend(_query, _params' \o _sortParams' \o _paginationParams',
                            _operand)

\* _buildQuery that appends with the default operand instead of this._operand
_buildQuery_defaultOperand ==
    _query' = ForEachAppend("", _params' \o _sortParams' \o _paginationParams',
                            _DEFAULT_OPERAND)

\* _buildQuery, run after the sequences of the new state are assigned
_buildQuery ==
    _query' = ForEachAppend("", _params' \o _sortParams' \o _paginationParams',
                            _operand)

\* get query
query == Slice(_query, Len(_operand))

\* get history
history == _history

\* get previousQuery: undefined (absent) on an empty history
previousQuery ==
    IF Len(_history) = 0 THEN <<>> ELSE <<_history[Len(_history)]>>

\* a filter that stops at the first match and drops the rest
RECURSIVE FilterOut_stopsAtMatch(_, _)
FilterOut_stopsAtMatch(list, property) ==
    IF list = <<>> THEN <<>>
    ELSE IF Head(list).property # property
         THEN <<Head(list)>> \o FilterOut_stopsAtMatch(Tail(list), property)
         ELSE <<>>

\* Array.prototype.filter(param => param.property !== property)
RECURSIVE FilterOut(_, _)
FilterOut(list, property) ==
    IF list = <<>> THEN <<>>
    ELSE (IF Head(list).property # property THEN <<Head(list)>> ELSE <<>>)
         \o FilterOut(Tail(list), property)

\* the caller's position: the call that returned last
Called(name, args, raised) ==
    /\ calls < MaxCalls
    /\ calls' = calls + 1
    /\ lastOp' = [name |-> name, args |-> args, raised |-> raised]
    /\ UNCHANGED <<spdrParam, compiled_query>>

\* no parameter object constructed yet
NoParam == [kind |-> "none", args |-> <<>>, constructed |-> FALSE,
            property |-> "", query |-> ""]

Init ==
    /\ \E operand \in ConstructorArgs :
         _operand = Default(operand, _DEFAULT_OPERAND)
    /\ _query = ""
    /\ _history = <<>>
    /\ _params = <<>>
    /\ _sortParams = <<>>
    /\ _paginationParams = <<>>
    /\ nextId = 0
    /\ calls = 0
    /\ lastOp = [name |-> "constructor", args |-> <<>>, raised |-> FALSE]
    /\ spdrParam = NoParam
    /\ compiled_query = ""

operand(value) ==
    /\ Called("operand", <<value>>, FALSE)
    /\ _operand' = value
    /\ UNCHANGED <<_query, _history, _params, _sortParams, _paginationParams,
                   nextId>>

\* clearHistory that also resets the accumulator
clearHistory_resetsQuery ==
    /\ Called("clearHistory", <<>>, FALSE)
    /\ _history' = <<>>
    /\ _query' = ""
    /\ UNCHANGED <<_operand, _params, _sortParams, _paginationParams, nextId>>

clearHistory ==
    /\ Called("clearHistory", <<>>, FALSE)
    /\ _history' = <<>>
    /\ UNCHANGED <<_query, _operand, _params, _sortParams, _paginationParams,
                   nextId>>

_addParam(param) ==
    /\ _params' = Append(_params, param)
    /\ UNCHANGED <<_sortParams, _paginationParams, _operand, _history>>
    /\ nextId' = nextId + 1
    /\ _buildQuery

_addSortParam(param) ==
    /\ _sortParams' = Append(_sortParams, param)
    /\ UNCHANGED <<_params, _paginationParams, _operand, _history>>
    /\ nextId' = nextId + 1
    /\ _buildQuery

_addPaginationParam(param) ==
    /\ _paginationParams' = Append(_paginationParams, param)
    /\ UNCHANGED <<_params, _sortParams, _operand, _history>>
    /\ nextId' = nextId + 1
    /\ _buildQuery

search(property, values, operandArg) ==
    /\ Called("search", <<property, values, operandArg>>, FALSE)
    /\ _addParam(SpdrParam(nextId, property,
                   SpdrSearchQuery(property, values, Default(operandArg, _operand))))

exists(property, value) ==
    /\ Called("exists", <<property, value>>, FALSE)
    /\ _addParam(SpdrParam(nextId, property,
                   SpdrExistsQuery(property, Default(value, TRUE))))

range(property, operator, value, secondValue) ==
    /\ Called("range", <<property, operator, value, secondValue>>, FALSE)
    /\ _addParam(SpdrParam(nextId, property,
                   SpdrRangeQuery(property, operator, value, secondValue)))

\* new SpdrDate throws the RangeError of toISOString on an invalid Date,
\* before _addParam is reached
date(property, operator, value) ==
    IF value.valid
    THEN /\ Called("date", <<property, operator, value>>, FALSE)
         /\ _addParam(SpdrParam(nextId, property,
                        SpdrDateQuery(property, operator, value)))
    ELSE /\ Called("date", <<property, operator, value>>, TRUE)
         /\ UNCHANGED <<_query, _operand, _history, _params, _sortParams,
                        _paginationParams, nextId>>

order(property, direction) ==
    /\ Called("order", <<property, direction>>, FALSE)
    /\ _addSortParam(SpdrParam(nextId, property,
                       SpdrOrderQuery(property, direction)))

enablePagination(value, property) ==
    /\ Called("enablePagination", <<value, property>>, FALSE)
    /\ LET p == Default(property, PageOperator.pagination)
       IN _addPaginationParam(SpdrParam(nextId, p,
                                SpdrPaginationQuery(Default(value, TRUE), p)))

pageIndex(value, property) ==
    /\ Called("pageIndex", <<value, property>>, FALSE)
    /\ LET p == Default(property, PageOperator.page)
       IN _addPaginationParam(SpdrParam(nextId, p, SpdrPageIdxQuery(value, p)))

pageSize(value, property) ==
    /\ Called("pageSize", <<value, property>>, FALSE)
    /\ LET p == Default(property, PageOperator.itemsPerPage)
       IN _addPaginationParam(SpdrParam(nextId, p, SpdrPageSizeQuery(value, p)))

\* the switch of clear with the break of the sort case missing
clearSwitch_sortFallsThrough(type) ==
    CASE type = <<SpdrParamType.param>> ->
           /\ _params' = <<>>
           /\ UNCHANGED <<_sortParams, _paginationParams>>
      [] type = <<SpdrParamType.sort>> ->
           /\ _sortParams' = <<>>
           /\ _paginationParams' = <<>>
           /\ UNCHANGED _params
      [] type = <<SpdrParamType.pagination>> ->
           /\ _paginationParams' = <<>>
           /\ UNCHANGED <<_params, _sortParams>>
      [] OTHER ->
           /\ _params' = <<>>
           /\ _sortParams' = <<>>
           /\ _paginationParams' = <<>>

\* switch (type) of clear
clearSwitch(type) ==
    CASE type = <<SpdrParamType.param>> ->
           /\ _params' = <<>>
           /\ UNCHANGED <<_sortParams, _paginationParams>>
      [] type = <<SpdrParamType.sort>> ->
           /\ _sortParams' = <<>>
           /\ UNCHANGED <<_params, _paginationParams>>
      [] type = <<SpdrParamType.pagination>> ->
           /\ _paginationParams' = <<>>
           /\ UNCHANGED <<_params, _sortParams>>
      [] OTHER ->
           /\ _params' = <<>>
           /\ _sortParams' = <<>>
           /\ _paginationParams' = <<>>

\* clear that pushes this.query after the rebuild
clear_pushAfterBuild(type) ==
    /\ Called("clear", <<type>>, FALSE)
    /\ clearSwitch(type)
    /\ UNCHANGED <<_operand, nextId>>
    /\ _buildQuery
    /\ _history' = Append(_history, Slice(_query', Len(_operand')))

\* clear pushes this.query after the sequences are emptied and before the
\* rebuild: the getter still reads the accumulator of the previous rebuild
clear(type) ==
    /\ Called("clear", <<type>>, FALSE)
    /\ clearSwitch(type)
    /\ _history' = Append(_history, query)
    /\ _buildQuery
    /\ UNCHANGED <<_operand, nextId>>

\* switch (type) of remove
removeSwitch(property, type) ==
    CASE type = <<SpdrParamType.param>> ->
           /\ _params' = FilterOut(_params, property)
           /\ UNCHANGED <<_sortParams, _paginationParams>>
      [] type = <<SpdrParamType.sort>> ->
           /\ _sortParams' = FilterOut(_sortParams, property)
           /\ UNCHANGED <<_params, _paginationParams>>
      [] type = <<SpdrParamType.pagination>> ->
           /\ _paginationParams' = FilterOut(_paginationParams, property)
           /\ UNCHANGED <<_params, _sortParams>>
      [] OTHER ->
           /\ _params' = FilterOut(_params, property)
           /\ _sortParams' = FilterOut(_sortParams, property)
           /\ _paginationParams' = FilterOut(_paginationParams, property)

\* remove that also pushes the query onto history, as clear does
remove_pushesHistory(property, type) ==
    /\ Called("remove", <<property, type>>, FALSE)
    /\ removeSwitch(property, type)
    /\ _history' = Append(_history, query)
    /\ _buildQuery
    /\ UNCHANGED <<_operand, nextId>>

remove(property, type) ==
    /\ Called("remove", <<property, type>>, FALSE)
    /\ removeSwitch(property, type)
    /\ _buildQuery
    /\ UNCHANGED <<_operand, _history, nextId>>

\* set params without the rebuild
setParams_noRebuild(value) ==
    /\ Called("set params", <<value>>, FALSE)
    /\ _params' = value
    /\ UNCHANGED <<_sortParams, _paginationParams, _operand, _history, _query>>
    /\ nextId' = nextId + Len(value)

\* set params
setParams(value) ==
    /\ Called("set params", <<value>>, FALSE)
    /\ _params' = value
    /\ UNCHANGED <<_sortParams, _paginationParams, _operand, _history>>
    /\ nextId' = nextId + Len(value)
    /\ _buildQuery

\* set sortParams
setSortParams(value) ==
    /\ Called("set sortParams", <<value>>, FALSE)
    /\ _sortParams' = value
    /\ UNCHANGED <<_params, _paginationParams, _operand, _history>>
    /\ nextId' = nextId + Len(value)
    /\ _buildQuery

\* set paginationParams
setPaginationParams(value) ==
    /\ Called("set paginationParams", <<value>>, FALSE)
    /\ _paginationParams' = value
    /\ UNCHANGED <<_params, _sortParams, _operand, _history>>
    /\ nextId' = nextId + Len(value)
    /\ _buildQuery

(***************************************************************************)
(* Specifications.                                                         *)
(***************************************************************************)
\* the add operations of the builder
Add ==
    \/ \E a \in SearchArgs : search(a[1], a[2], a[3])
    \/ \E a \in ExistsArgs : exists(a[1], a[2])
    \/ \E a \in RangeArgs : range(a[1], a[2], a[3], a[4])
    \/ \E a \in DateArgs : date(a[1], a[2], a[3])
    \/ \E a \in OrderArgs : order(a[1], a[2])
    \/ \E a \in EnablePaginationArgs : enablePagination(a[1], a[2])
    \/ \E a \in PageIndexArgs : pageIndex(a[1], a[2])
    \/ \E a \in PageSizeArgs : pageSize(a[1], a[2])

Next ==
    \/ Add
    \/ \E value \in OperandArgs : operand(value)
    \/ clearHistory
    \/ \E type \in TypeArgs : clear(type)
    \/ \E property \in RemoveProperties, type \in TypeArgs : remove(property, type)
    \/ \E value \in ParamsArrays(nextId) : setParams(value)
    \/ \E value \in SortParamsArrays(nextId) : setSortParams(value)
    \/ \E value \in PaginationParamsArrays(nextId) : setPaginationParams(value)

\* every call of the builder, in any order
Spec == Init /\ [][Next]_vars

\* add operations only
SpecAdd == Init /\ [][Add]_vars

\* set query(value) of SpdrParam, called on the object at position i of the
\* sequence of the given type; the builder is not told
setQuery(type, i, value) ==
    /\ Called("set query", <<type, i, value>>, FALSE)
    /\ CASE type = SpdrParamType.param ->
              /\ i \in 1..Len(_params)
              /\ _params' = [_params EXCEPT ![i].query = value]
              /\ UNCHANGED <<_sortParams, _paginationParams>>
         [] type = SpdrParamType.sort ->
              /\ i \in 1..Len(_sortParams)
              /\ _sortParams' = [_sortParams EXCEPT ![i].query = value]
              /\ UNCHANGED <<_params, _paginationParams>>
         [] type = SpdrParamType.pagination ->
              /\ i \in 1..Len(_paginationParams)
              /\ _paginationParams' = [_paginationParams EXCEPT ![i].query = value]
              /\ UNCHANGED <<_params, _sortParams>>
    /\ UNCHANGED <<_query, _operand, _history, nextId>>

NextParam ==
    \/ Next
    \/ \E type \in {SpdrParamType.param, SpdrParamType.sort,
                    SpdrParamType.pagination}, i \in 1..MaxCalls,
          value \in SetQueryArgs :
         setQuery(type, i, value)

\* the calls of the builder and the query setter of the parameters it holds
SpecParam == Init /\ [][NextParam]_vars

(***************************************************************************)
(* The constructors of the parameter variants, called by a caller.         *)
(***************************************************************************)
CtorProperties == {"a", "price"}

\* values of SpdrSearch: the lists of at most MaxValues strings
CtorValues == UNION {[1..n -> {"x", "y"}] : n \in 0..MaxValues}

\* operand? of SpdrSearch
CtorOperands == {<<>>, <<";">>, <<"&&">>}

CtorRangeOperators == {RangeOperator.lt, RangeOperator.lte, RangeOperator.gt,
                       RangeOperator.gte, RangeOperator.between}

CtorDateOperators == {DateOperator.after, DateOperator.before,
                      DateOperator.strictlyAfter, DateOperator.strictlyBefore}

\* a Date whose fields need padding
EarlyDate == [valid |-> TRUE, y |-> 987, mo |-> 12, d |-> 31, h |-> 23,
              mi |-> 59, s |-> 59, ms |-> 999]

CtorDates == {ValidDate, EarlyDate, InvalidDate}

CtorNumbers == {0, 10, 20}

\* secondValue? of SpdrRange
CtorSecondValues == {<<>>, <<0>>, <<20>>}

CtorOptBooleans == {<<>>, <<TRUE>>, <<FALSE>>}

CtorOptProperties == {<<>>, <<"a">>}

\* the object a constructor returns
Constructed(kind, args, property, token) ==
    /\ spdrParam' = [kind |-> kind, args |-> args, constructed |-> TRUE,
                     property |-> property, query |-> token]
    /\ UNCHANGED <<_query, _operand, _history, _params, _sortParams,
                   _paginationParams, nextId, calls, lastOp, compiled_query>>

\* the constructor threw: no object
Threw(kind, args) ==
    /\ spdrParam' = [kind |-> kind, args |-> args, constructed |-> FALSE,
                     property |-> "", query |-> ""]
    /\ UNCHANGED <<_query, _operand, _history, _params, _sortParams,
                   _paginationParams, nextId, calls, lastOp, compiled_query>>

newSpdrExists(property, value) ==
    Constructed("SpdrExists", <<property, value>>, property,
                SpdrExistsQuery(property, value))

newSpdrSearch(property, values, operandArg) ==
    Constructed("SpdrSearch", <<property, values, operandArg>>, property,
                SpdrSearchQuery(property, values, Default(operandArg, "&")))

newSpdrDate(property, operator, value) ==
    IF value.valid
    THEN Constructed("SpdrDate", <<property, operator, value>>, property,
                     SpdrDateQuery(property, operator, value))
    ELSE Threw("SpdrDate", <<property, operator, value>>)

newSpdrRange(property, operator, value, secondValue) ==
    Constructed("SpdrRange", <<property, operator, value, secondValue>>,
                property, SpdrRangeQuery(property, operator, value, secondValue))

newSpdrOrder(property, value) ==
    Constructed("SpdrOrder", <<property, value>>, property,
                SpdrOrderQuery(property, value))

newSpdrPagination(value, property) ==
    LET p == Default(property, PageOperator.pagination)
    IN Constructed("SpdrPagination", <<value, property>>, p,
                   SpdrPaginationQuery(Default(value, TRUE), p))

newSpdrPageIdx(value, property) ==
    LET p == Default(property, PageOperator.page)
    IN Constructed("SpdrPageIdx", <<value, property>>, p,
                   SpdrPageIdxQuery(value, p))

newSpdrPageSize(value, property) ==
    LET p == Default(property, PageOperator.itemsPerPage)
    IN Constructed("SpdrPageSize", <<value, property>>, p,
                   SpdrPageSizeQuery(value, p))

NextCtor ==
    \/ \E property \in CtorProperties, value \in BOOLEAN :
         newSpdrExists(property, value)
    \/ \E property \in CtorProperties, values \in CtorValues,
          operandArg \in CtorOperands :
         newSpdrSearch(property, values, operandArg)
    \/ \E property \in CtorProperties, operator \in CtorDateOperators,
          value \in CtorDates :
         newSpdrDate(property, operator, value)
    \/ \E property \in CtorProperties, operator \in CtorRangeOperators,
          value \in CtorNumbers, secondValue \in CtorSecondValues :
         newSpdrRange(property, operator, value, secondValue)
    \/ \E property \in CtorProperties,
          value \in {OrderOperator.asc, OrderOperator.desc} :
         newSpdrOrder(property, value)
    \/ \E value \in CtorOptBooleans, property \in CtorOptProperties :
         newSpdrPagination(value, property)
    \/ \E value \in CtorNumbers, property \in CtorOptProperties :
         newSpdrPageIdx(value, property)
    \/ \E value \in CtorNumbers, property \in CtorOptProperties :
         newSpdrPageSize(value, property)

\* every constructor on every input of the sets above
SpecCtor == Init /\ [][NextCtor]_vars

(***************************************************************************)
(* Vocabulary of the properties.                                           *)
(***************************************************************************)
\* the tokens of a sequence of parameters, in order
Tokens(list) == [i \in 1..Len(list) |-> list[i].query]

\* the tokens joined by a delimiter, no delimiter in front
RECURSIVE Join(_, _)
Join(tokens, sep) ==
    IF tokens = <<>> THEN ""
    ELSE IF Len(tokens) = 1 THEN tokens[1]
    ELSE tokens[1] \o sep \o Join(Tail(tokens), sep)

\* filters, then sort, then pagination
AllParams == _params \o _sortParams \o _paginationParams

\* the parameter objects a builder holds
Held == {AllParams[i] : i \in 1..Len(AllParams)}

\* s ends with suffix
EndsWith(s, suffix) ==
    /\ Len(suffix) <= Len(s)
    /\ SubSeq(s, Len(s) - Len(suffix) + 1, Len(s)) = suffix

\* the parameters of a sequence are in the order of their construction
InInsertionOrder(list) ==
    \A i, j \in 1..Len(list) : i < j => list[i].id < list[j].id

\* the step is a return of the named call
Step(name) == calls' = calls + 1 /\ lastOp'.name = name

AddNames == {"search", "exists", "range", "date", "order", "enablePagination",
             "pageIndex", "pageSize"}

SetterNames == {"set params", "set sortParams", "set paginationParams"}

\* the step is a structural change: an add, a remove, a clear or a setter
StructuralStep ==
    /\ calls' = calls + 1
    /\ lastOp'.name \in AddNames \cup SetterNames \cup {"remove", "clear"}
    /\ ~lastOp'.raised

(***************************************************************************)
(* C1: after any sequence of add operations, query is the tokens of the    *)
(* filters, then of the sort parameters, then of the pagination            *)
(* parameters, each group in insertion order, joined by the operand with   *)
(* no leading operand; the pagination tokens are the suffix of query.      *)
(***************************************************************************)
C1_QueryIsCategoryOrderedJoin ==
    /\ query = Join(Tokens(AllParams), _operand)
    /\ InInsertionOrder(_params)
    /\ InInsertionOrder(_sortParams)
    /\ InInsertionOrder(_paginationParams)
    /\ EndsWith(query, Join(Tokens(_paginationParams), _operand))

\* two pagination parameters, then a sort parameter and a filter added later
C1_Witness ==
    /\ Len(_paginationParams) = 2
    /\ _sortParams # <<>>
    /\ _params # <<>>
    /\ _sortParams[1].id > _paginationParams[2].id
    /\ _params[1].id > _sortParams[1].id
    /\ EndsWith(query, _paginationParams[1].query \o _operand
                       \o _paginationParams[2].query)

(***************************************************************************)
(* C2: in every reachable state query equals the current tokens in         *)
(* category order joined by the current operand, also right after          *)
(* operand(value).                                                         *)
(***************************************************************************)
C2_QueryIsFunctionOfSequencesAndOperand ==
    query = Join(Tokens(AllParams), _operand)

(***************************************************************************)
(* C3: every clear appends exactly one entry to history, the value query   *)
(* returned immediately before the call; previousQuery is then that value, *)
(* and previousQuery is undefined exactly when history is empty.           *)
(***************************************************************************)
C3_ClearPushesPriorQuery ==
    [][/\ Step("clear") =>
            /\ _history' = Append(_history, query)
            /\ previousQuery' = <<query>>
       /\ (previousQuery' = <<>>) <=> (Len(history') = 0)]_vars

\* the second clear, of a builder that held parameters: the entry is read
\* after the sequences were emptied
C3_Witness ==
    /\ lastOp.name = "clear"
    /\ Len(_history) = 2
    /\ _history[2] # ""
    /\ AllParams = <<>>
    /\ previousQuery = <<_history[2]>>

(***************************************************************************)
(* C4: clear() with no argument leaves the three sequences empty and       *)
(* query equal to the empty string.                                        *)
(***************************************************************************)
C4_ClearAllEmpties ==
    [][Step("clear") /\ lastOp'.args = <<<<>>>> =>
         /\ _params' = <<>>
         /\ _sortParams' = <<>>
         /\ _paginationParams' = <<>>
         /\ query' = ""]_vars

\* clear() of a builder whose query was not empty
C4_Witness ==
    /\ lastOp.name = "clear"
    /\ lastOp.args = <<<<>>>>
    /\ _history # <<>>
    /\ Len(_history[Len(_history)]) > 0
    /\ AllParams = <<>>
    /\ query = ""

(***************************************************************************)
(* C5: clear(category) empties only that sequence; the other two keep the  *)
(* same parameters in the same order, and query is then the tokens of      *)
(* those two joined by the current operand.                                *)
(***************************************************************************)
C5_ClearCategoryEmptiesOnlyThat ==
    [][Step("clear") /\ lastOp'.args # <<<<>>>> =>
         LET type == lastOp'.args[1][1] IN
         /\ type = SpdrParamType.param =>
              /\ _params' = <<>>
              /\ UNCHANGED <<_sortParams, _paginationParams>>
              /\ query' = Join(Tokens(_sortParams \o _paginationParams), _operand')
         /\ type = SpdrParamType.sort =>
              /\ _sortParams' = <<>>
              /\ UNCHANGED <<_params, _paginationParams>>
              /\ query' = Join(Tokens(_params \o _paginationParams), _operand')
         /\ type = SpdrParamType.pagination =>
              /\ _paginationParams' = <<>>
              /\ UNCHANGED <<_params, _sortParams>>
              /\ query' = Join(Tokens(_params \o _sortParams), _operand')]_vars

\* clear(sort) dropped order[a]=asc from between a filter and a pagination
\* parameter
C5_Witness ==
    /\ lastOp.name = "clear"
    /\ lastOp.args = <<<<SpdrParamType.sort>>>>
    /\ Len(_params) = 1
    /\ _sortParams = <<>>
    /\ Len(_paginationParams) = 1
    /\ _history = <<_params[1].query \o _operand \o "order[a]=asc" \o _operand
                    \o _paginationParams[1].query>>
    /\ query = _params[1].query \o _operand \o _paginationParams[1].query

(***************************************************************************)
(* C6: remove(property) deletes every parameter with that property from    *)
(* the three sequences, remove(property, category) from the named one      *)
(* only; the others stay in their relative order, history is unchanged,    *)
(* and query is then the join of the remaining tokens.  Removing a         *)
(* property no parameter has changes no sequence.                          *)
(***************************************************************************)
\* the parameters of list whose property differs, in their order
Remaining(list, property) ==
    LET F[i \in 0..Len(list)] ==
          IF i = 0 THEN <<>>
          ELSE IF list[i].property # property THEN Append(F[i - 1], list[i])
          ELSE F[i - 1]
    IN F[Len(list)]

C6_RemoveDeletesMatching ==
    [][Step("remove") =>
         LET property == lastOp'.args[1]
             type == lastOp'.args[2]
             Named(t) == type = <<>> \/ type = <<t>>
         IN
         /\ _params' = IF Named(SpdrParamType.param)
                       THEN Remaining(_params, property) ELSE _params
         /\ _sortParams' = IF Named(SpdrParamType.sort)
                           THEN Remaining(_sortParams, property) ELSE _sortParams
         /\ _paginationParams' = IF Named(SpdrParamType.pagination)
                                 THEN Remaining(_paginationParams, property)
                                 ELSE _paginationParams
         /\ (\A p \in Held : p.property # property) =>
              UNCHANGED <<_params, _sortParams, _paginationParams>>
         /\ _history' = _history
         /\ query' = Join(Tokens(AllParams'), _operand')]_vars

\* remove("a") after set params and two adds: it deleted the parameters 1,
\* 2 and 3 and kept exists[b]=false
C6_Witness ==
    /\ lastOp.name = "remove"
    /\ lastOp.args = <<"a", <<>>>>
    /\ calls = 4
    /\ nextId = 4
    /\ AllParams = <<SpdrParam(0, "b", "exists[b]=false")>>
    /\ query = "exists[b]=false"

(***************************************************************************)
(* C7: operand(value) changes only the delimiter: the sequences, history   *)
(* and the tokens held stay as they are, and after the next structural     *)
(* change query is the current tokens joined by the new operand.           *)
(***************************************************************************)
C7_OperandChangesOnlyDelimiter ==
    [][/\ Step("operand") =>
            /\ _operand' = lastOp'.args[1]
            /\ UNCHANGED <<_params, _sortParams, _paginationParams, _history>>
       /\ StructuralStep => query' = Join(Tokens(AllParams'), _operand')]_vars

\* a multi-value search built with "&", then operand(value), then a
\* structural change: the token keeps "&" and the tokens are joined anew
C7_Witness ==
    /\ lastOp.name \in AddNames \cup SetterNames \cup {"remove", "clear"}
    /\ ~lastOp.raised
    /\ _operand \in {";", "&&"}
    /\ Len(AllParams) >= 2
    /\ \E p \in Held : p.query = "a[]=x&a[]=y"
    /\ query = Join(Tokens(AllParams), _operand)

(***************************************************************************)
(* C8: history changes only through clear and clearHistory, and between    *)
(* two clearHistory calls it only grows at its end.                        *)
(***************************************************************************)
C8_HistoryOnlyByClear ==
    [][/\ _history' # _history => Step("clear") \/ Step("clearHistory")
       /\ ~Step("clearHistory") =>
            /\ Len(_history') >= Len(_history)
            /\ SubSeq(_history', 1, Len(_history)) = _history]_vars

\* two entries, the first not empty, and a call other than clear after them
C8_Witness ==
    /\ Len(_history) = 2
    /\ _history[1] # ""
    /\ lastOp.name \in AddNames \cup SetterNames \cup {"remove", "operand"}
    /\ ~lastOp.raised

(***************************************************************************)
(* C9: clearHistory() empties history, previousQuery is then undefined,    *)
(* and the sequences, the operand and query are as before the call.        *)
(***************************************************************************)
C9_ClearHistoryOnlyHistory ==
    [][Step("clearHistory") =>
         /\ _history' = <<>>
         /\ previousQuery' = <<>>
         /\ UNCHANGED <<_params, _sortParams, _paginationParams, _operand>>
         /\ query' = query]_vars

\* set params, clear(param), order("a", asc), clearHistory(): the history
\* held an entry and query is not empty
C9_Witness ==
    /\ lastOp.name = "clearHistory"
    /\ calls = 4
    /\ _params = <<>>
    /\ _sortParams = <<SpdrParam(2, "a", "order[a]=asc")>>
    /\ _paginationParams = <<>>
    /\ _history = <<>>
    /\ query = "order[a]=asc"

(***************************************************************************)
(* C10: the query token of a parameter is set at construction and no       *)
(* operation available afterward, on the parameter or on a builder         *)
(* holding it, changes it.                                                 *)
(***************************************************************************)
C10_TokenImmutable ==
    [][\A p \in Held : \A q \in Held' : p.id = q.id => p.query = q.query]_vars

(***************************************************************************)
(* C11: right after construction the token of every variant is a non-empty *)
(* segment that neither begins nor ends with the delimiter, also for       *)
(* Search with an empty list of values and with two or more values.        *)
(***************************************************************************)
\* s begins with prefix
StartsWith(s, prefix) ==
    /\ Len(prefix) <= Len(s)
    /\ SubSeq(s, 1, Len(prefix)) = prefix

\* the delimiter of a constructed parameter: the operand of a Search, else
\* the default operand
Delimiter(p) ==
    IF p.kind = "SpdrSearch" THEN Default(p.args[3], "&") ELSE _DEFAULT_OPERAND

C11_TokenFullyFormed ==
    spdrParam.constructed =>
        /\ Len(spdrParam.query) > 0
        /\ ~StartsWith(spdrParam.query, Delimiter(spdrParam))
        /\ ~EndsWith(spdrParam.query, Delimiter(spdrParam))

(***************************************************************************)
(* C12: no operation raises: every constructor and every builder call      *)
(* returns normally for every input of its declared types, an invalid Date *)
(* included.                                                               *)
(***************************************************************************)
C12_NoOperationRaises ==
    /\ ~lastOp.raised
    /\ spdrParam.kind # "none" => spdrParam.constructed

(***************************************************************************)
(* C13: assigning an array to params, sortParams or paginationParams       *)
(* replaces that sequence as a whole, leaves the other two and history     *)
(* unchanged, and query read right after is the join of the tokens of the  *)
(* three sequences as they now are.                                        *)
(***************************************************************************)
C13_SetterReplacesAndRebuilds ==
    [][(\E name \in SetterNames : Step(name)) =>
         LET value == lastOp'.args[1] IN
         /\ _params' = IF lastOp'.name = "set params" THEN value ELSE _params
         /\ _sortParams' = IF lastOp'.name = "set sortParams" THEN value
                           ELSE _sortParams
         /\ _paginationParams' = IF lastOp'.name = "set paginationParams"
                                 THEN value ELSE _paginationParams
         /\ _history' = _history
         /\ query' = Join(Tokens(AllParams'), _operand')]_vars

\* a filter (object 0), order("a", asc), then set params: the filter is
\* replaced by the two objects of the array and the sort parameter stays
C13_Witness ==
    /\ lastOp.name = "set params"
    /\ calls = 3
    /\ nextId = 4
    /\ Len(_params) = 2
    /\ _params[1].id = 2
    /\ _params[2].id = 3
    /\ _sortParams = <<SpdrParam(1, "a", "order[a]=asc")>>
    /\ _paginationParams = <<>>
    /\ query = _params[1].query \o _operand \o _params[2].query \o _operand
               \o "order[a]=asc"

(***************************************************************************)
(* C14: a Range renders property[operator]=value..secondValue exactly when *)
(* operator is between and secondValue is a non-zero number, and           *)
(* property[operator]=value in every other case: secondValue absent,       *)
(* secondValue 0, or secondValue given with another operator.              *)
(***************************************************************************)
C14_RangeRendering ==
    spdrParam.kind = "SpdrRange" =>
        LET property == spdrParam.args[1]
            operator == spdrParam.args[2]
            value == spdrParam.args[3]
            secondValue == spdrParam.args[4]
            single == property \o "[" \o operator \o "]=" \o ToString(value)
        IN /\ spdrParam.constructed
           /\ (operator = "between" /\ secondValue # <<>> /\ secondValue[1] # 0)
                => spdrParam.query = single \o ".." \o ToString(secondValue[1])
           /\ secondValue = <<>> => spdrParam.query = single
           /\ (secondValue # <<>> /\ secondValue[1] = 0)
                => spdrParam.query = single
           /\ (secondValue # <<>> /\ operator # "between")
                => spdrParam.query = single

\* between with secondValue 0 degenerates to the single-value form
C14_Witness ==
    /\ spdrParam.kind = "SpdrRange"
    /\ spdrParam.args = <<"price", "between", 10, <<0>>>>
    /\ spdrParam.query = "price[between]=10"

\* the segments property[]=value of a multi-value Search, in order
SearchSegments(property, values) ==
    [i \in 1..Len(values) |-> property \o "[]=" \o values[i]]

\* total length of the strings of a sequence
RECURSIVE SumLen(_)
SumLen(strings) ==
    IF strings = <<>> THEN 0 ELSE Len(Head(strings)) + SumLen(Tail(strings))

(***************************************************************************)
(* C15: a Search with exactly one value renders property=value; with       *)
(* n >= 2 values it renders the n segments property[]=value in the order   *)
(* of values, separated by operand: n-1 separators, none after the last.   *)
(***************************************************************************)
C15_SearchRendering ==
    spdrParam.kind = "SpdrSearch" =>
        LET property == spdrParam.args[1]
            values == spdrParam.args[2]
            separator == Default(spdrParam.args[3], "&")
            n == Len(values)
        IN /\ spdrParam.constructed
           /\ n = 1 => spdrParam.query = property \o "=" \o values[1]
           /\ n >= 2 =>
                /\ spdrParam.query
                     = Join(SearchSegments(property, values), separator)
                /\ Len(spdrParam.query)
                     = SumLen(SearchSegments(property, values))
                       + (n - 1) * Len(separator)

\* three values joined by a two-character operand
C15_Witness ==
    /\ spdrParam.kind = "SpdrSearch"
    /\ spdrParam.args = <<"a", <<"x", "y", "x">>, <<"&&">>>>
    /\ spdrParam.query = "a[]=x&&a[]=y&&a[]=x"

(***************************************************************************)
(* A builder constructed with any operand, then add operations that never  *)
(* pass an explicit operand and never change the builder's operand.        *)
(***************************************************************************)
\* new SpdrQueryBuilder(operand?)
InitAnyOperand ==
    /\ \E operandArg \in CtorOperands :
         _operand = Default(operandArg, _DEFAULT_OPERAND)
    /\ _query = ""
    /\ _history = <<>>
    /\ _params = <<>>
    /\ _sortParams = <<>>
    /\ _paginationParams = <<>>
    /\ nextId = 0
    /\ calls = 0
    /\ lastOp = [name |-> "constructor", args |-> <<>>, raised |-> FALSE]
    /\ spdrParam = NoParam
    /\ compiled_query = ""

\* search(property, values): zero, one and two values, operand omitted
DefaultOperandSearchArgs ==
    {<<"a", <<>>, <<>>>>, <<"a", <<"x">>, <<>>>>, <<"b", <<"x", "y">>, <<>>>>}

AddDefaultOperand ==
    \/ \E a \in DefaultOperandSearchArgs : search(a[1], a[2], a[3])
    \/ \E a \in ExistsArgs : exists(a[1], a[2])
    \/ \E a \in RangeArgs : range(a[1], a[2], a[3], a[4])
    \/ \E a \in OrderArgs : order(a[1], a[2])
    \/ \E a \in PageSizeArgs : pageSize(a[1], a[2])

SpecDefaultOperand == InitAnyOperand /\ [][AddDefaultOperand]_vars

\* the segments of a Search: property=value for one value, else one
\* property[]=value per value
SearchSegmentsOf(property, values) ==
    IF Len(values) = 1 THEN <<property \o "=" \o values[1]>>
    ELSE SearchSegments(property, values)

\* the non-empty strings of a sequence, in order
NonEmpty(strings) == SelectSeq(strings, LAMBDA t : t # "")

(***************************************************************************)
(* C16: search without an explicit operand builds its token with the       *)
(* operand the builder holds; on a builder whose operand d is set at       *)
(* construction and never changed, after adds that pass no operand, query  *)
(* is the d-join of all segments in order: every separator is d, between   *)
(* tokens and between the values of a search, and there is none elsewhere. *)
(***************************************************************************)
C16_DefaultOperandJoin ==
    /\ [][(Step("search") /\ lastOp'.args[3] = <<>>) =>
            /\ Len(_params') = Len(_params) + 1
            /\ _params'[Len(_params')].query
                 = Join(SearchSegmentsOf(lastOp'.args[1], lastOp'.args[2]),
                        _operand)]_vars
    /\ [](query = Join(NonEmpty(Tokens(AllParams)), _operand))

(***************************************************************************)
(* The older builder of the compiled file: constructor(params),            *)
(* build(params, operand = '&'), append(param, operand = '&'), get query.  *)
(* Its _query is the variable compiled_query.                              *)
(***************************************************************************)
\* params handed to the constructor and to build
CompiledParams ==
    {<<>>,
     <<SpdrParam(0, "a", "a=1"), SpdrParam(1, "b", "exists[b]=true")>>}

\* param handed to append
CompiledParam == SpdrParam(2, "c", "c[gt]=10")

\* operand? of build and append
CompiledOperands == {<<>>, <<";">>, <<"&&">>}

\* this._query += `${operand}${param.query}`
compiled_append(q, param, operandArg) ==
    q \o Default(operandArg, "&") \o param.query

\* params.forEach(param => this.append(param, operand)), from position i
RECURSIVE compiled_forEach(_, _, _, _)
compiled_forEach(q, params, operandArg, i) ==
    IF i > Len(params) THEN q
    ELSE compiled_forEach(compiled_append(q, params[i], operandArg),
                          params, operandArg, i + 1)

\* build: append every param, then this._query.slice(1)
compiled_build(q, params, operandArg) ==
    Slice(compiled_forEach(q, params, operandArg, 1), 1)

\* get query
compiled_getQuery == compiled_query

\* the caller's position in the older builder
CalledCompiled(name, args) ==
    /\ calls < MaxCalls
    /\ calls' = calls + 1
    /\ lastOp' = [name |-> name, args |-> args, raised |-> FALSE]
    /\ UNCHANGED <<_query, _operand, _history, _params, _sortParams,
                   _paginationParams, nextId, spdrParam>>

\* new SpdrQueryBuilder(params?): params && this.build(params)
InitCompiled ==
    /\ \E paramsArg \in {<<>>} \cup {<<ps>> : ps \in CompiledParams} :
         /\ compiled_query = IF paramsArg = <<>> THEN ""
                             ELSE compiled_build("", paramsArg[1], <<>>)
         /\ lastOp = [name |-> "constructor", args |-> paramsArg,
                      raised |-> FALSE]
    /\ _operand = _DEFAULT_OPERAND
    /\ _query = ""
    /\ _history = <<>>
    /\ _params = <<>>
    /\ _sortParams = <<>>
    /\ _paginationParams = <<>>
    /\ nextId = 0
    /\ calls = 0
    /\ spdrParam = NoParam

build(params, operandArg) ==
    /\ CalledCompiled("build", <<params, operandArg>>)
    /\ compiled_query' = compiled_build(compiled_query, params, operandArg)

append(param, operandArg) ==
    /\ CalledCompiled("append", <<param, operandArg>>)
    /\ compiled_query' = compiled_append(compiled_query, param, operandArg)

NextCompiled ==
    \/ \E params \in CompiledParams, operandArg \in CompiledOperands :
         build(params, operandArg)
    \/ \E operandArg \in CompiledOperands : append(CompiledParam, operandArg)

SpecCompiled == InitCompiled /\ [][NextCompiled]_vars

\* q extended by tokens, every token separated by sep, no delimiter in front
JoinOnto(q, tokens, sep) ==
    IF tokens = <<>> THEN q
    ELSE IF q = "" THEN Join(tokens, sep)
    ELSE q \o sep \o Join(tokens, sep)

(***************************************************************************)
(* C17: in the older builder query is empty when no params were fed; after *)
(* build(params, operand) query is the tokens of the params joined by      *)
(* operand with no leading delimiter (on a builder that already holds a    *)
(* query: that join alone, or the held query followed by it), for every    *)
(* operand string; and an empty builder filled by append alone holds the   *)
(* tokens joined by operand with no leading delimiter.                     *)
(***************************************************************************)
C17_CompiledQueryIsJoin ==
    /\ []((lastOp.name = "constructor" /\ calls = 0) =>
            compiled_getQuery
              = IF lastOp.args = <<>> THEN ""
                ELSE Join(Tokens(lastOp.args[1]), "&"))
    /\ [][Step("build") =>
            LET tokens == Tokens(lastOp'.args[1])
                sep == Default(lastOp'.args[2], "&")
            IN compiled_getQuery' \in
                 {Join(tokens, sep), JoinOnto(compiled_getQuery, tokens, sep)}]_vars
    /\ [][Step("append") =>
            compiled_getQuery'
              = JoinOnto(compiled_getQuery, <<lastOp'.args[1].query>>,
                         Default(lastOp'.args[2], "&"))]_vars

====
